---- MODULE Spec2Model ----
(***************************************************************************)
(* A model of prettylog (package internal): Scan reads a stream line by    *)
(* line, TryHandleJson classifies each line, tryParseTime normalises the   *)
(* `ts` field and PrettyPrint renders the event to the log sink.           *)
(*                                                                         *)
(* Go strings are modelled as what they are, sequences of bytes (0..255);  *)
(* int64 values that exceed the checker's integers are numerals in base    *)
(* 1000, most significant limb first, with no leading zero limb            *)
(* (<<1, 0, 0, 0, 0>> is 1e12, <<>> is 0).                                 *)
(***************************************************************************)
EXTENDS Integers, Sequences, FiniteSets, TLC

VARIABLES
    \* ---- Scan (the stream loop) ----
    pc,         \* where Scan stands: "scan", "print", "trace", "poll", "done", "panic"
    nread,      \* Scan's `line` counter: lines read so far
    ev,         \* the Event built for the line being processed
    pending,    \* PrettyPrint's errorValue between the main record and the traceback
    out,        \* the log sink: the records written so far, oldest first
    cancelled,  \* ctx.Done() is closed
    cancelAt,   \* history: Scan's pc when the context was cancelled ("never")
    scanErr,    \* bufio.Scanner's sticky error, in.Err(): "none", "toolong", "io"
    ret,        \* what Scan returned: "none" (still running), "nil", "err"
    noColor,    \* fatih/color's process-wide NoColor switch
    \* ---- parseTimeFloat64 on its own ----
    tv,         \* the numeric timestamp under construction, [neg, mag]
    tpc,        \* "build" or "parsed"
    tres,       \* the time.Time parseTimeFloat64 returned
    \* ---- TryHandleJson on its own ----
    jraw,       \* the decoded JSON object under construction: a set of [key, val]
    jpc,        \* "build" or "handled"
    jout        \* the Structured that TryHandleJson filled

scanVars == <<pc, nread, ev, pending, out, cancelled, cancelAt, scanErr, ret, noColor>>
timeVars == <<tv, tpc, tres>>
jsonVars == <<jraw, jpc, jout>>
vars == <<scanVars, timeVars, jsonVars>>

(***************************************************************************)
(* Bounds of the model.                                                    *)
(***************************************************************************)
MaxLines == 2
MaxLimbs == 7
MaxFields == 3

(***************************************************************************)
(* Sequences and byte strings.                                             *)
(***************************************************************************)
Range(s) == {s[i] : i \in 1..Len(s)}

Min(a, b) == IF a < b THEN a ELSE b

imin(a, b) == IF a < b THEN a ELSE b

\* Go's s[:n]: the first n bytes; the runtime panics when n > len(s).
SliceTo(s, n) == SubSeq(s, 1, n)

RECURSIVE Flatten(_)
Flatten(ss) == IF ss = <<>> THEN <<>> ELSE Head(ss) \o Flatten(Tail(ss))

\* Byte-wise comparison of two Go strings, as the < of Go strings: -1, 0 or 1.
RECURSIVE StrCmp(_, _)
StrCmp(a, b) ==
    IF a = <<>> /\ b = <<>> THEN 0
    ELSE IF a = <<>> THEN -1
    ELSE IF b = <<>> THEN 1
    ELSE IF Head(a) < Head(b) THEN -1
    ELSE IF Head(a) > Head(b) THEN 1
    ELSE StrCmp(Tail(a), Tail(b))

StrLess(a, b) == StrCmp(a, b) < 0

\* sort.Strings: the increasing arrangement of a list of strings.
RECURSIVE Insert(_, _)
Insert(x, sorted) ==
    IF sorted = <<>> THEN <<x>>
    ELSE IF StrLess(Head(sorted), x) THEN <<Head(sorted)>> \o Insert(x, Tail(sorted))
    ELSE <<x>> \o sorted

RECURSIVE SortStrings(_)
SortStrings(l) == IF l = <<>> THEN <<>> ELSE Insert(Head(l), SortStrings(Tail(l)))

\* strings.Join(l, sep)
RECURSIVE Join(_, _)
Join(l, sep) ==
    IF l = <<>> THEN <<>>
    ELSE IF Len(l) = 1 THEN l[1]
    ELSE l[1] \o sep \o Join(Tail(l), sep)

\* strings.Split(s, "\n"): the segments between newlines, at least one.
RECURSIVE SplitAcc(_, _)
SplitAcc(s, cur) ==
    IF s = <<>> THEN <<cur>>
    ELSE IF Head(s) = 10 THEN <<cur>> \o SplitAcc(Tail(s), <<>>)
    ELSE SplitAcc(Tail(s), Append(cur, Head(s)))

SplitLines(s) == SplitAcc(s, <<>>)

(***************************************************************************)
(* UTF-8 and case mapping (strings.ToUpper, strings.ToLower).              *)
(***************************************************************************)
\* The number of bytes of the UTF-8 sequence that starts with byte b.
RuneWidth(b) == IF b < 128 THEN 1 ELSE IF b < 224 THEN 2 ELSE IF b < 240 THEN 3 ELSE 4

\* utf8.DecodeRune of a well-formed sequence of RuneWidth bytes.
DecodeRune(bs) ==
    CASE Len(bs) = 1 -> bs[1]
      [] Len(bs) = 2 -> (bs[1] - 192) * 64 + (bs[2] - 128)
      [] Len(bs) = 3 -> (bs[1] - 224) * 4096 + (bs[2] - 128) * 64 + (bs[3] - 128)
      [] OTHER -> (bs[1] - 240) * 262144 + (bs[2] - 128) * 4096
                    + (bs[3] - 128) * 64 + (bs[4] - 128)

\* utf8.EncodeRune
EncodeRune(r) ==
    IF r < 128 THEN <<r>>
    ELSE IF r < 2048 THEN <<192 + (r \div 64), 128 + (r % 64)>>
    ELSE IF r < 65536 THEN <<224 + (r \div 4096), 128 + ((r \div 64) % 64), 128 + (r % 64)>>
    ELSE <<240 + (r \div 262144), 128 + ((r \div 4096) % 64),
           128 + ((r \div 64) % 64), 128 + (r % 64)>>

\* unicode.ToUpper on the runes the model's inputs use: ASCII, Latin-1 letters,
\* dotless i (U+0131 -> I), long s (U+017F -> S) and basic Cyrillic.
ToUpperRune(r) ==
    IF r >= 97 /\ r <= 122 THEN r - 32
    ELSE IF r = 305 THEN 73
    ELSE IF r = 383 THEN 83
    ELSE IF r >= 224 /\ r <= 254 /\ r # 247 THEN r - 32
    ELSE IF r >= 1072 /\ r <= 1103 THEN r - 32
    ELSE r

\* unicode.ToLower on the same runes (U+0130 -> i, U+212A Kelvin -> k).
ToLowerRune(r) ==
    IF r >= 65 /\ r <= 90 THEN r + 32
    ELSE IF r = 304 THEN 105
    ELSE IF r = 8490 THEN 107
    ELSE IF r >= 192 /\ r <= 222 /\ r # 215 THEN r + 32
    ELSE IF r >= 1040 /\ r <= 1071 THEN r + 32
    ELSE r

\* strings.ToUpper: decode each rune, map it, encode it again.
RECURSIVE ToUpper(_)
ToUpper(s) ==
    IF s = <<>> THEN <<>>
    ELSE LET w == Min(RuneWidth(Head(s)), Len(s))
         IN EncodeRune(ToUpperRune(DecodeRune(SubSeq(s, 1, w))))
                \o ToUpper(SubSeq(s, w + 1, Len(s)))

RECURSIVE ToLower(_)
ToLower(s) ==
    IF s = <<>> THEN <<>>
    ELSE LET w == Min(RuneWidth(Head(s)), Len(s))
         IN EncodeRune(ToLowerRune(DecodeRune(SubSeq(s, 1, w))))
                \o ToLower(SubSeq(s, w + 1, Len(s)))

(***************************************************************************)
(* int64 arithmetic on base-1000 numerals.                                 *)
(***************************************************************************)
Base == 1000

RECURSIVE Norm(_)
Norm(a) == IF a # <<>> /\ Head(a) = 0 THEN Norm(Tail(a)) ELSE a

RECURSIVE CmpSameLen(_, _)
CmpSameLen(a, b) ==
    IF a = <<>> THEN 0
    ELSE IF Head(a) < Head(b) THEN -1
    ELSE IF Head(a) > Head(b) THEN 1
    ELSE CmpSameLen(Tail(a), Tail(b))

\* a ? b on magnitudes: -1, 0 or 1.
Cmp(a, b) ==
    IF Len(a) < Len(b) THEN -1
    ELSE IF Len(a) > Len(b) THEN 1
    ELSE CmpSameLen(a, b)

Pad(a, n) == [i \in 1..(n - Len(a)) |-> 0] \o a

\* a - b for magnitudes a >= b, limb by limb from the least significant.
RECURSIVE SubLimbs(_, _, _, _)
SubLimbs(a, b, i, borrow) ==
    IF i = 0 THEN <<>>
    ELSE LET d == a[i] - b[i] - borrow
         IN SubLimbs(a, b, i - 1, IF d < 0 THEN 1 ELSE 0)
                \o <<IF d < 0 THEN d + Base ELSE d>>

Sub(a, b) == Norm(SubLimbs(a, Pad(b, Len(a)), Len(a), 0))

\* a * 1000^k
MulPow(a, k) == IF a = <<>> THEN <<>> ELSE a \o [i \in 1..k |-> 0]

\* a / 1000^k and a % 1000^k on magnitudes
DivPow(a, k) == IF Len(a) <= k THEN <<>> ELSE SubSeq(a, 1, Len(a) - k)

ModPow(a, k) == IF Len(a) <= k THEN a ELSE Norm(SubSeq(a, Len(a) - k + 1, Len(a)))

Two63 == <<9, 223, 372, 36, 854, 775, 808>>

Two64 == <<18, 446, 744, 73, 709, 551, 616>>

Two53 == <<9, 7, 199, 254, 740, 992>>

E12 == <<1, 0, 0, 0, 0>>

E15 == <<1, 0, 0, 0, 0, 0>>

E18 == <<1, 0, 0, 0, 0, 0, 0>>

\* A signed value.
SInt(neg, mag) == [neg |-> neg /\ mag # <<>>, mag |-> mag]

\* The int64 that the bits of a non-negative product hold: the value modulo
\* 2^64, read as two's complement.
RECURSIVE Mod64(_)
Mod64(a) == IF Cmp(a, Two64) < 0 THEN a ELSE Mod64(Sub(a, Two64))

Wrap64(a) ==
    LET r == Mod64(a)
    IN IF Cmp(r, Two63) < 0 THEN SInt(FALSE, r) ELSE SInt(TRUE, Sub(Two64, r))

\* v > c for a signed v and a positive constant c.
Greater(v, c) == ~v.neg /\ Cmp(v.mag, c) > 0

\* int64 v *= 1000^k, wrapping (only ever applied to a positive v).
MulWrap(v, k) == Wrap64(MulPow(v.mag, k))

\* a + 1 on magnitudes
RECURSIVE IncLimbs(_, _)
IncLimbs(a, i) ==
    IF i = 0 THEN <<1>> \o a
    ELSE IF a[i] + 1 < Base THEN [a EXCEPT ![i] = a[i] + 1]
    ELSE IncLimbs([a EXCEPT ![i] = 0], i - 1)

Inc(a) == IncLimbs(a, Len(a))

E9 == <<1, 0, 0, 0>>

\* Go's int64 division and remainder by 1e9: both truncate toward zero, the
\* remainder takes the sign of the dividend.
Quot9(v) == SInt(v.neg, DivPow(v.mag, 3))

Rem9(v) == SInt(v.neg, ModPow(v.mag, 3))

\* time.Unix(sec, nsec) for |nsec| < 1e9: a negative nsec borrows one second,
\* so that the Time holds sec seconds and 0 <= nsec < 1e9 nanoseconds.
UnixTime(sec, nsec) ==
    IF nsec.neg
    THEN [sec  |-> IF sec.neg THEN SInt(TRUE, Inc(sec.mag))
                   ELSE IF sec.mag = <<>> THEN SInt(TRUE, <<1>>)
                   ELSE SInt(FALSE, Sub(sec.mag, <<1>>)),
          nsec |-> Sub(E9, nsec.mag)]
    ELSE [sec |-> sec, nsec |-> nsec.mag]

\* The zero time.Time: January 1, year 1, 00:00:00 UTC.
ZeroTime == [sec |-> SInt(TRUE, <<62, 135, 596, 800>>), nsec |-> <<>>]

(***************************************************************************)
(* The Timestamp Normalizer.                                               *)
(***************************************************************************)
\* parseTimeFloat64 from `v := int64(value)` on: v is the truncated value.
parseTimeFloat64(v) ==
    IF Greater(v, E18) THEN UnixTime(Quot9(v), Rem9(v))
    ELSE IF Greater(v, E15)
    THEN LET w == MulWrap(v, 1) IN UnixTime(Quot9(w), Rem9(w))
    ELSE IF Greater(v, E12)
    THEN LET w == MulWrap(v, 2) IN UnixTime(Quot9(w), Rem9(w))
    ELSE UnixTime(v, SInt(FALSE, <<>>))

\* A float64 holds an integer exactly when it has at most 53 significant bits:
\* below 2^53 always, and a multiple of 1000^k (so of 8^k) below 2^53 * 8^k.
RECURSIVE TrailingZeroLimbs(_)
TrailingZeroLimbs(a) ==
    IF a = <<>> \/ a[Len(a)] # 0 THEN 0
    ELSE 1 + TrailingZeroLimbs(SubSeq(a, 1, Len(a) - 1))

Two56 == <<72, 57, 594, 37, 927, 936>>

Two59 == <<576, 460, 752, 303, 423, 488>>

Two62 == <<4, 611, 686, 18, 427, 387, 904>>

IsFloat64(a) ==
    LET k == TrailingZeroLimbs(a)
    IN \/ Cmp(a, Two53) < 0
       \/ k >= 1 /\ Cmp(a, Two56) < 0
       \/ k >= 2 /\ Cmp(a, Two59) < 0
       \/ k >= 3 /\ Cmp(a, Two62) < 0
       \/ k >= 4

\* The limbs the numeric timestamps are built from.
LimbChoices == {0, 1, 9, 10}

TimeInit ==
    /\ tv = SInt(FALSE, <<>>)
    /\ tpc = "build"
    /\ tres = ZeroTime

\* The caller's value grows by one limb; it stays an int64.
TimeAppendLimb(l) ==
    /\ tpc = "build"
    /\ Len(tv.mag) < MaxLimbs
    /\ LET m == Norm(tv.mag \o <<l>>)
       IN /\ m # tv.mag
          /\ Cmp(m, Two63) < 0
          /\ tv' = SInt(tv.neg, m)
    /\ UNCHANGED <<tpc, tres, scanVars, jsonVars>>

TimeNegate ==
    /\ tpc = "build"
    /\ ~tv.neg
    /\ tv.mag # <<>>
    /\ tv' = SInt(TRUE, tv.mag)
    /\ UNCHANGED <<tpc, tres, scanVars, jsonVars>>

\* tryParseTime's numeric cases: parseTimeFloat64(value), always ok.
ParseNumeric ==
    /\ tpc = "build"
    /\ IsFloat64(tv.mag)
    /\ tres' = parseTimeFloat64(tv)
    /\ tpc' = "parsed"
    /\ UNCHANGED <<tv, scanVars, jsonVars>>

TimeNext ==
    \/ \E l \in LimbChoices : TimeAppendLimb(l)
    \/ TimeNegate
    \/ ParseNumeric

(***************************************************************************)
(* Decoded JSON values (encoding/json into interface{}).  Every value has  *)
(* the same fields: kind, str (a string's bytes; for an array or an object *)
(* the text fmt.Sprint gives it) and num (a number's integer value).       *)
(***************************************************************************)
JStr(s) == [kind |-> "string", str |-> s, num |-> SInt(FALSE, <<>>)]

JNum(m) == [kind |-> "number", str |-> <<>>, num |-> SInt(FALSE, m)]

JBool(b) == [kind |-> "bool", str |-> <<>>, num |-> SInt(FALSE, IF b THEN <<1>> ELSE <<>>)]

\* JSON null decodes to the nil interface, which is also what a missing key reads as.
JNull == [kind |-> "null", str |-> <<>>, num |-> SInt(FALSE, <<>>)]

JArr(text) == [kind |-> "array", str |-> text, num |-> SInt(FALSE, <<>>)]

\* A decoded object, map[string]interface{}, from its <<key, value>> pairs.
Obj(pairs) ==
    [k \in {p[1] : p \in Range(pairs)} |-> (CHOOSE p \in Range(pairs) : p[1] = k)[2]]

\* raw[k] of a Go map: the value, or nil when the key is missing.
Lookup(raw, k) == IF k \in DOMAIN raw THEN raw[k] ELSE JNull

\* delete(raw, k)
Delete(raw, k) == [x \in (DOMAIN raw) \ {k} |-> raw[x]]

\* The orders in which `range` may visit a map's keys.
Perms(S) ==
    {f \in [1..Cardinality(S) -> S] : \A i, j \in 1..Cardinality(S) : i # j => f[i] # f[j]}

KeyTs == <<116, 115>>                                          \* "ts"

KeyMsg == <<109, 115, 103>>                                    \* "msg"

KeyLevel == <<108, 101, 118, 101, 108>>                        \* "level"

KeyCaller == <<99, 97, 108, 108, 101, 114>>                    \* "caller"

KeyStacktrace == <<115, 116, 97, 99, 107, 116, 114, 97, 99, 101>>  \* "stacktrace"

(***************************************************************************)
(* tryParseTime.  time.Parse is the library's: the model knows it on the   *)
(* strings its inputs use, by the first layout of `formats` that accepts   *)
(* the whole string (0: none does) and the instant it denotes.             *)
(***************************************************************************)
NumFormats == 20

TsDateTime == <<50, 48, 50, 51, 45, 48, 49, 45, 48, 50, 32, 49, 53, 58, 48, 52, 58, 48, 53>>
    \* "2023-01-02 15:04:05"

TsRFC3339 == <<50, 48, 50, 51, 45, 48, 49, 45, 48, 50, 84, 49, 53, 58, 48, 52, 58, 48, 53, 90>>
    \* "2023-01-02T15:04:05Z"

TsGarbage == <<110, 111, 116, 32, 97, 32, 116, 105, 109, 101>>   \* "not a time"

\* time.Parse(formats[i], s): ok and the instant, or not ok.
TimeParse(i, s) ==
    IF (s = TsDateTime /\ i = 2) \/ (s = TsRFC3339 /\ i \in {4, 5})
    THEN [ok |-> TRUE, t |-> [sec |-> SInt(FALSE, <<1, 672, 671, 845>>), nsec |-> <<>>]]
    ELSE [ok |-> FALSE, t |-> ZeroTime]

\* The loop over formats: the first layout that parses wins.
RECURSIVE tryLayouts(_, _)
tryLayouts(i, s) ==
    IF i > NumFormats THEN [ok |-> FALSE, t |-> ZeroTime]
    ELSE IF TimeParse(i, s).ok THEN TimeParse(i, s)
    ELSE tryLayouts(i + 1, s)

tryParseTime(value) ==
    CASE value.kind = "string" -> tryLayouts(1, value.str)
      [] value.kind = "number" -> [ok |-> TRUE, t |-> parseTimeFloat64(value.num)]
      [] OTHER -> [ok |-> FALSE, t |-> ZeroTime]

(***************************************************************************)
(* The Structured Line Classifier.                                         *)
(***************************************************************************)
\* Structured{KVs: make([]KV, 0)}
EmptyStructured == [Time |-> ZeroTime, Msg |-> <<>>, Level |-> <<>>, KVs |-> <<>>]

\* json.Unmarshal(d, &raw) into a map: an object fills the map; the JSON null
\* leaves it as it is and reports no error; anything else is an error.
Unmarshal(parse) ==
    CASE parse.kind = "object" -> [err |-> FALSE, raw |-> parse.obj]
      [] parse.kind = "null" -> [err |-> FALSE, raw |-> Obj(<<>>)]
      [] OTHER -> [err |-> TRUE, raw |-> Obj(<<>>)]

\* The map after the three reserved keys were looked at.
AfterTs(raw) == IF tryParseTime(Lookup(raw, KeyTs)).ok THEN Delete(raw, KeyTs) ELSE raw

\* msg deleted whatever its type.
AfterMsgAlways(raw) == Delete(raw, KeyMsg)

AfterMsg(raw) == IF Lookup(raw, KeyMsg).kind = "string" THEN Delete(raw, KeyMsg) ELSE raw

AfterLevel(raw) == IF Lookup(raw, KeyLevel).kind = "string" THEN Delete(raw, KeyLevel) ELSE raw

Remaining(raw) == AfterLevel(AfterMsg(AfterTs(raw)))

\* TryHandleJson(d, out) on a fresh Structured; `order` is the order in which
\* `range raw` visits the keys that are left.
TryHandleJson(parse, order) ==
    LET u == Unmarshal(parse)
        raw == u.raw
        ts == tryParseTime(Lookup(raw, KeyTs))
        msg == Lookup(raw, KeyMsg)
        level == Lookup(raw, KeyLevel)
        rest == Remaining(raw)
    IN IF u.err THEN [ok |-> FALSE, data |-> EmptyStructured]
       ELSE [ok |-> TRUE,
             data |-> [Time  |-> IF ts.ok THEN ts.t ELSE ZeroTime,
                       Msg   |-> IF msg.kind = "string" THEN msg.str ELSE <<>>,
                       Level |-> IF level.kind = "string" THEN level.str ELSE <<>>,
                       KVs   |-> [i \in 1..Len(order) |->
                                     [Key |-> order[i], Value |-> rest[order[i]]]]]]

\* The orders `range` may take for a line.
Orders(parse) == Perms(DOMAIN Remaining(Unmarshal(parse).raw))

(***************************************************************************)
(* TryHandleJson on its own, over objects built field by field.            *)
(***************************************************************************)
KeyA == <<97>>                                                 \* "a"

TextHi == <<104, 105>>                                         \* "hi"

FieldKeys == {KeyTs, KeyMsg, KeyLevel, KeyCaller, KeyA}

FieldValues ==
    {JStr(TsDateTime), JStr(TextHi), JNum(<<1, 0, 0, 0>>), JNum(<<2, 0, 0, 0, 0>>),
     JBool(TRUE), JNull}

JsonInit ==
    /\ jraw = Obj(<<>>)
    /\ jpc = "build"
    /\ jout = EmptyStructured

JsonAddField(k, v) ==
    /\ jpc = "build"
    /\ k \notin DOMAIN jraw
    /\ Cardinality(DOMAIN jraw) < MaxFields
    /\ jraw' = [x \in (DOMAIN jraw) \cup {k} |-> IF x = k THEN v ELSE jraw[x]]
    /\ UNCHANGED <<jpc, jout, scanVars, timeVars>>

JsonHandle ==
    /\ jpc = "build"
    /\ \E order \in Orders([kind |-> "object", obj |-> jraw]) :
          jout' = TryHandleJson([kind |-> "object", obj |-> jraw], order).data
    /\ jpc' = "handled"
    /\ UNCHANGED <<jraw, scanVars, timeVars>>

JsonNext ==
    \/ \E k \in FieldKeys, v \in FieldValues : JsonAddField(k, v)
    \/ JsonHandle

(***************************************************************************)
(* Colors.  color.Color.Sprint wraps the text in the color's escape        *)
(* sequence and the reset sequence, or returns it as it is when colors are *)
(* switched off (NoColor: the output is no terminal, NO_COLOR is set).     *)
(* A palette entry is the text of its SGR parameters.                      *)
(***************************************************************************)
KeyColor == <<51, 50>>                       \* FgGreen, "32"

ValColor == <<57, 55>>                       \* FgHiWhite, "97"

TimeColor == <<51, 55>>                      \* FgWhite, "37"

CallerColor == <<51, 52>>                    \* FgBlue, "34"

DebugLevelColor == <<51, 53>>                \* FgMagenta, "35"

InfoLevelColor == <<51, 54>>                 \* FgCyan, "36"

WarnLevelColor == <<51, 51>>                 \* FgYellow, "33"

ErrorLevelColor == <<51, 49>>                \* FgRed, "31"

FatalLevelColor == <<49, 48, 49, 59, 57, 55>>  \* BgHiRed, FgHiWhite: "101;97"

UnknownLevelColor == <<51, 53>>              \* FgMagenta, "35"

Sprint(c, s) ==
    IF noColor THEN s
    ELSE <<27, 91>> \o c \o <<109>> \o s \o <<27, 91, 48, 109>>

(***************************************************************************)
(* fmt.Sprint of a decoded value.                                          *)
(***************************************************************************)
Digits(n, width) ==
    LET d == <<48 + (n \div 100), 48 + ((n \div 10) % 10), 48 + (n % 10)>>
    IN SubSeq(d, 4 - width, 3)

LimbText(n, first) ==
    IF ~first THEN Digits(n, 3)
    ELSE IF n >= 100 THEN Digits(n, 3)
    ELSE IF n >= 10 THEN Digits(n, 2)
    ELSE Digits(n, 1)

\* An integer-valued float64 below 1e21 prints as its decimal digits.
Decimal(mag) ==
    IF mag = <<>> THEN <<48>>
    ELSE Flatten([i \in 1..Len(mag) |-> LimbText(mag[i], i = 1)])

ValText(v) ==
    CASE v.kind = "string" -> v.str
      [] v.kind = "number" -> (IF v.num.neg THEN <<45>> ELSE <<>>) \o Decimal(v.num.mag)
      [] v.kind = "bool" -> IF v.num.mag # <<>> THEN <<116, 114, 117, 101>>     \* "true"
                            ELSE <<102, 97, 108, 115, 101>>                     \* "false"
      [] v.kind = "null" -> <<60, 110, 105, 108, 62>>                           \* "<nil>"
      [] OTHER -> v.str

(***************************************************************************)
(* The Level Colorizer (the head of PrettyPrint).                          *)
(***************************************************************************)
LvlDebug == <<100, 101, 98, 117, 103>>                    \* "debug"

LvlInfo == <<105, 110, 102, 111>>                         \* "info"

LvlWarn == <<119, 97, 114, 110>>                          \* "warn"

LvlWarning == <<119, 97, 114, 110, 105, 110, 103>>        \* "warning"

LvlError == <<101, 114, 114, 111, 114>>                   \* "error"

LvlFatal == <<102, 97, 116, 97, 108>>                     \* "fatal"

LvlPanic == <<112, 97, 110, 105, 99>>                     \* "panic"

\* The case of `switch strings.ToLower(data.Level)` that is taken.
LevelCategory(level) ==
    LET l == ToLower(level)
    IN CASE l = LvlDebug -> "Debug"
         [] l = LvlInfo -> "Info"
         [] l \in {LvlWarn, LvlWarning} -> "Warn"
         [] l = LvlError -> "Error"
         [] l \in {LvlFatal, LvlPanic} -> "Fatal"
         [] OTHER -> "Unknown"

CategoryColor(cat) ==
    CASE cat = "Debug" -> DebugLevelColor
      [] cat = "Info" -> InfoLevelColor
      [] cat = "Warn" -> WarnLevelColor
      [] cat = "Error" -> ErrorLevelColor
      [] cat = "Fatal" -> FatalLevelColor
      [] OTHER -> UnknownLevelColor

\* strings.ToUpper(data.Level)[:imin(4, len(data.Level))]: the bound is taken
\* from the level as given, the slice from its uppercased form.  A slice bound
\* past the end of the string panics.
LabelBound(level) == imin(4, Len(level))

LabelPanics(level) == LabelBound(level) > Len(ToUpper(level))

LevelLabel(level) == SliceTo(ToUpper(level), LabelBound(level))

(***************************************************************************)
(* The Line Renderer (the rest of PrettyPrint).                            *)
(***************************************************************************)
\* kv.Value.(string): the assertion without the ok result panics on any
\* value that is no string.
AssertStringPanics(v) == v.kind # "string"

\* The loop over data.KVs panics at the first stacktrace or caller entry whose
\* value is no string.
LoopPanics(kvs) ==
    \E i \in 1..Len(kvs) :
        /\ kvs[i].Key \in {KeyStacktrace, KeyCaller}
        /\ AssertStringPanics(kvs[i].Value)

\* errorValue and caller after the loop: the entry's string, else "".
LoopString(kvs, key) ==
    IF \E i \in 1..Len(kvs) : kvs[i].Key = key
    THEN kvs[CHOOSE i \in 1..Len(kvs) : kvs[i].Key = key /\
                 \A j \in 1..Len(kvs) : kvs[j].Key = key => j <= i].Value.str
    ELSE <<>>

\* kstr + "=" + vstr
RenderKV(kv) == Sprint(KeyColor, kv.Key) \o <<61>> \o Sprint(ValColor, ValText(kv.Value))

\* kvs after the loop, before the sort: the entries that are neither
\* stacktrace nor caller, rendered, in the order of data.KVs.
RECURSIVE LoopKVs(_)
LoopKVs(kvs) ==
    IF kvs = <<>> THEN <<>>
    ELSE IF Head(kvs).Key \in {KeyStacktrace, KeyCaller} THEN LoopKVs(Tail(kvs))
    ELSE <<RenderKV(Head(kvs))>> \o LoopKVs(Tail(kvs))

SortedKVs(kvs) == SortStrings(LoopKVs(kvs))

\* A record of the sink.  lineNo is the input line being processed when it was
\* written; time is the instant whose formatting opens a main record and text
\* is what follows it (time.Format's calendar text is not modelled); kvs is
\* the sorted key=value list that the text ends with.
Record(kind, lineNo, raw, time, text, kvs) ==
    [kind |-> kind, lineNo |-> lineNo, raw |-> raw, time |-> time, text |-> text,
     kvs |-> kvs]

\* log.Print(ev.Raw)
RawRecord(lineNo, raw) == Record("raw", lineNo, raw, ZeroTime, <<>>, <<>>)

\* log.Printf("%s [%s] %s\t[%s] %s", time, lvl, msg, caller, kvs) from " [" on.
MainText(data) ==
    <<32, 91>> \o Sprint(CategoryColor(LevelCategory(data.Level)), LevelLabel(data.Level))
        \o <<93, 32>> \o data.Msg
        \o <<9, 91>> \o Sprint(CallerColor, LoopString(data.KVs, KeyCaller)) \o <<93, 32>>
        \o Join(SortedKVs(data.KVs), <<9>>)

MainRecord(lineNo, data) ==
    Record("main", lineNo, "", data.Time, MainText(data), SortedKVs(data.KVs))

\* The traceback block: the top of the box, one bar line per segment, the
\* bottom.  (Of the two rules only the corner glyph is kept.)
BoxTop == <<226, 149, 173>>                  \* U+256D

BoxBar == <<226, 148, 130>>                  \* U+2502

BoxBottom == <<226, 149, 176>>               \* U+2570

\* The block without its closing line.
TracebackBlockOpen(lineNo, errorValue) ==
    LET segs == SplitLines(errorValue)
    IN <<Record("top", lineNo, "", ZeroTime, Sprint(ErrorLevelColor, BoxTop), <<>>)>>
       \o [i \in 1..Len(segs) |->
              Record("bar", lineNo, "", ZeroTime,
                     Sprint(ErrorLevelColor, BoxBar) \o segs[i], <<>>)]

TracebackBlock(lineNo, errorValue) ==
    LET segs == SplitLines(errorValue)
    IN <<Record("top", lineNo, "", ZeroTime, Sprint(ErrorLevelColor, BoxTop), <<>>)>>
       \o [i \in 1..Len(segs) |->
              Record("bar", lineNo, "", ZeroTime,
                     Sprint(ErrorLevelColor, BoxBar) \o segs[i], <<>>)]
       \o <<Record("bottom", lineNo, "", ZeroTime, Sprint(ErrorLevelColor, BoxBottom), <<>>)>>

\* `if errorValue != ""`
HasTraceback(errorValue) == errorValue # <<>>

(***************************************************************************)
(* The input lines of the model: the text of each line and what            *)
(* encoding/json makes of it (kind: "object", "null", "other" for any      *)
(* other JSON value, "invalid" for text that is no JSON).                  *)
(***************************************************************************)
Line(raw, kind, pairs) == [raw |-> raw, parse |-> [kind |-> kind, obj |-> Obj(pairs)]]

KeyA1 == <<97, 49>>                                            \* "a1"

KeyADotB == <<97, 46, 98>>                                     \* "a.b"

KeyB == <<98>>                                                 \* "b"

KeyK == <<107>>                                                \* "k"

TextM == <<109>>                                               \* "m"

TextX == <<120>>                                               \* "x"

TextV == <<118>>                                               \* "v"

TextBoom == <<98, 111, 111, 109>>                              \* "boom"

TextMGo == <<109, 46, 103, 111, 58, 49>>                       \* "m.go:1"

TextXY == <<120, 10, 121>>                                     \* "x\ny"

TextOne == <<111, 110, 101>>                                   \* "one"

LvlTrace == <<116, 114, 97, 99, 101>>                          \* "trace"

LvlDEBUG == <<68, 69, 66, 85, 71>>                             \* "DEBUG"

LvlWarnMixed == <<87, 97, 114, 110>>                           \* "Warn"

LvlDotless == <<196, 177>>                                     \* U+0131, dotless i

LvlCyrillic == <<208, 190, 209, 136, 208, 184, 208, 177, 208, 186, 208, 176>>
    \* six Cyrillic letters of two bytes each

RawLines ==
    {Line("plain text error", "invalid", <<>>),
     Line("", "invalid", <<>>),
     Line("null", "null", <<>>),
     Line("[1]", "other", <<>>),
     Line("42", "other", <<>>)}

ObjectLines ==
    {Line("{\"ts\":1000000000,\"level\":\"info\",\"msg\":\"hi\",\"b\":1,\"a\":\"x\"}", "object",
          <<<<KeyTs, JNum(<<1, 0, 0, 0>>)>>, <<KeyLevel, JStr(LvlInfo)>>,
            <<KeyMsg, JStr(TextHi)>>, <<KeyB, JNum(<<1>>)>>, <<KeyA, JStr(TextX)>>>>),
     Line("{\"level\":\"warning\",\"a\":1,\"a1\":2,\"a.b\":3}", "object",
          <<<<KeyLevel, JStr(LvlWarning)>>, <<KeyA, JNum(<<1>>)>>,
            <<KeyA1, JNum(<<2>>)>>, <<KeyADotB, JNum(<<3>>)>>>>),
     Line("{\"level\":\"error\",\"msg\":\"boom\",\"stacktrace\":\"x\\ny\",\"caller\":\"m.go:1\",\"k\":\"v\"}",
          "object",
          <<<<KeyLevel, JStr(LvlError)>>, <<KeyMsg, JStr(TextBoom)>>,
            <<KeyStacktrace, JStr(TextXY)>>, <<KeyCaller, JStr(TextMGo)>>,
            <<KeyK, JStr(TextV)>>>>),
     Line("{\"stacktrace\":\"\",\"msg\":\"m\"}", "object",
          <<<<KeyStacktrace, JStr(<<>>)>>, <<KeyMsg, JStr(TextM)>>>>),
     Line("{\"stacktrace\":\"one\"}", "object", <<<<KeyStacktrace, JStr(TextOne)>>>>),
     Line("{\"caller\":1,\"msg\":\"m\"}", "object",
          <<<<KeyCaller, JNum(<<1>>)>>, <<KeyMsg, JStr(TextM)>>>>),
     Line("{\"stacktrace\":null}", "object", <<<<KeyStacktrace, JNull>>>>),
     Line("{\"ts\":\"not a time\",\"msg\":1,\"level\":2}", "object",
          <<<<KeyTs, JStr(TsGarbage)>>, <<KeyMsg, JNum(<<1>>)>>, <<KeyLevel, JNum(<<2>>)>>>>)}

LevelLines ==
    {Line("{\"level\":\"trace\"}", "object", <<<<KeyLevel, JStr(LvlTrace)>>>>),
     Line("{\"level\":\"DEBUG\"}", "object", <<<<KeyLevel, JStr(LvlDEBUG)>>>>),
     Line("{\"level\":\"Warn\"}", "object", <<<<KeyLevel, JStr(LvlWarnMixed)>>>>),
     Line("{\"level\":\"panic\"}", "object", <<<<KeyLevel, JStr(LvlPanic)>>>>),
     Line("{\"level\":\"\\u0131\"}", "object", <<<<KeyLevel, JStr(LvlDotless)>>>>),
     Line("{\"level\":\"\\u043e\\u0448\\u0438\\u0431\\u043a\\u0430\"}", "object",
          <<<<KeyLevel, JStr(LvlCyrillic)>>>>)}

LineSet == RawLines \cup ObjectLines \cup LevelLines

(***************************************************************************)
(* The Stream Scanner.                                                     *)
(***************************************************************************)
NoEvent == [Raw |-> "", Structured |-> FALSE, data |-> EmptyStructured]

\* Scan's loop body up to PrettyPrint: the Event of a line.
Event(l, order) ==
    LET h == TryHandleJson(l.parse, order)
    IN [Raw |-> l.raw, Structured |-> h.ok, data |-> h.data]

\* What Scan returns after `for in.Scan()` ends, whatever in.Err() holds.
ScanReturn(err) == "nil"

\* Where Scan polls ctx.Done(): after PrettyPrint has returned.
PollPoint(p) == p = "poll"

ScanInit ==
    /\ pc = "scan"
    /\ nread = 0
    /\ ev = NoEvent
    /\ pending = <<>>
    /\ out = <<>>
    /\ cancelled = FALSE
    /\ cancelAt = "never"
    /\ scanErr = "none"
    /\ ret = "none"
    /\ noColor \in BOOLEAN

\* in.Scan() returns true: the next line is read and classified.
ReadLine(l, order) ==
    /\ pc = "scan"
    /\ nread < MaxLines
    /\ nread' = nread + 1
    /\ ev' = Event(l, order)
    /\ pc' = "print"
    /\ UNCHANGED <<pending, out, cancelled, cancelAt, scanErr, ret, noColor, timeVars, jsonVars>>

\* in.Scan() returns false: the stream ended ("none"), the next line is longer
\* than the 1 MiB buffer ("toolong") or the reader failed ("io").
ReadEnd(e) ==
    /\ pc = "scan"
    /\ scanErr' = e
    /\ ret' = ScanReturn(e)
    /\ pc' = "done"
    /\ UNCHANGED <<nread, ev, pending, out, cancelled, cancelAt, noColor, timeVars, jsonVars>>

\* PrettyPrint of a raw event.
PrintRaw ==
    /\ pc = "print"
    /\ ~ev.Structured
    /\ out' = Append(out, RawRecord(nread, ev.Raw))
    /\ pc' = "poll"
    /\ UNCHANGED <<nread, ev, pending, cancelled, cancelAt, scanErr, ret, noColor, timeVars, jsonVars>>

\* PrettyPrint of a structured event panics before it writes anything.
PrintPanic ==
    /\ pc = "print"
    /\ ev.Structured
    /\ LabelPanics(ev.data.Level) \/ LoopPanics(ev.data.KVs)
    /\ pc' = "panic"
    /\ UNCHANGED <<nread, ev, pending, out, cancelled, cancelAt, scanErr, ret, noColor, timeVars, jsonVars>>

\* PrettyPrint of a structured event up to the main record.
PrintMain ==
    /\ pc = "print"
    /\ ev.Structured
    /\ ~(LabelPanics(ev.data.Level) \/ LoopPanics(ev.data.KVs))
    /\ out' = Append(out, MainRecord(nread, ev.data))
    /\ pending' = LoopString(ev.data.KVs, KeyStacktrace)
    /\ pc' = IF HasTraceback(pending') THEN "trace" ELSE "poll"
    /\ UNCHANGED <<nread, ev, cancelled, cancelAt, scanErr, ret, noColor, timeVars, jsonVars>>

\* The rest of PrettyPrint: the traceback block.
PrintTraceback ==
    /\ pc = "trace"
    /\ out' = out \o TracebackBlock(nread, pending)
    /\ pending' = <<>>
    /\ pc' = "poll"
    /\ UNCHANGED <<nread, ev, cancelled, cancelAt, scanErr, ret, noColor, timeVars, jsonVars>>

\* select: ctx.Done() is closed, Scan returns nil.
PollCancelled ==
    /\ PollPoint(pc)
    /\ cancelled
    /\ pc' = "done"
    /\ ret' = "nil"
    /\ UNCHANGED <<nread, ev, pending, out, cancelled, cancelAt, scanErr, noColor, timeVars, jsonVars>>

\* select: default, the loop goes on.
PollContinue ==
    /\ pc = "poll"
    /\ ~cancelled
    /\ pc' = "scan"
    /\ UNCHANGED <<nread, ev, pending, out, cancelled, cancelAt, scanErr, ret, noColor, timeVars, jsonVars>>

\* The caller cancels the context, at any moment while Scan runs.
Cancel ==
    /\ pc \notin {"done", "panic"}
    /\ ~cancelled
    /\ cancelled' = TRUE
    /\ cancelAt' = pc
    /\ UNCHANGED <<pc, nread, ev, pending, out, scanErr, ret, noColor, timeVars, jsonVars>>

ScanNext ==
    \/ \E l \in LineSet : \E order \in Orders(l.parse) : ReadLine(l, order)
    \/ \E e \in {"none", "toolong", "io"} : ReadEnd(e)
    \/ PrintRaw
    \/ PrintPanic
    \/ PrintMain
    \/ PrintTraceback
    \/ PollCancelled
    \/ PollContinue
    \/ Cancel

(***************************************************************************)
(* The specifications: the stream scanner, and the two pure functions on   *)
(* their own.                                                              *)
(***************************************************************************)
ScanIdle ==
    /\ pc = "done"
    /\ nread = 0
    /\ ev = NoEvent
    /\ pending = <<>>
    /\ out = <<>>
    /\ cancelled = FALSE
    /\ cancelAt = "never"
    /\ scanErr = "none"
    /\ ret = "nil"
    /\ noColor = FALSE

Init == ScanInit /\ TimeInit /\ JsonInit

Spec == Init /\ [][ScanNext]_vars

InitTime == ScanIdle /\ TimeInit /\ JsonInit

SpecTime == InitTime /\ [][TimeNext]_vars

InitJson == ScanIdle /\ TimeInit /\ JsonInit

SpecJson == InitJson /\ [][JsonNext]_vars

(***************************************************************************)
(* What the properties below speak of.                                     *)
(***************************************************************************)
\* The records the sink holds for input line n, in the order written.
LineRecords(n) == SelectSeq(out, LAMBDA r : r.lineNo = n)

Kinds(recs) == [i \in 1..Len(recs) |-> recs[i].kind]

LineNos(recs) == [i \in 1..Len(recs) |-> recs[i].lineNo]

\* The first record of every line: its main record (a raw line's only record).
MainRecords == SelectSeq(out, LAMBDA r : r.kind \in {"raw", "main"})

\* What the input line of the current event decoded to.
ParseKind == (CHOOSE l \in LineSet : l.raw = ev.Raw).parse.kind

IsPrefix(p, s) == Len(p) <= Len(s) /\ SubSeq(s, 1, Len(p)) = p

HasKey(kvs, key) == \E i \in 1..Len(kvs) : kvs[i].Key = key

ValueOf(kvs, key) == kvs[CHOOSE i \in 1..Len(kvs) : kvs[i].Key = key].Value

\* The current event is a structured one and PrettyPrint has been entered and left.
Printed == nread > 0 /\ ev.Structured /\ pc \in {"trace", "poll"}

\* The main record of the current line.
CurrentMain == LineRecords(nread)[1]

\* The entries of the current event that belong in the key=value list.
GenericKVs == SelectSeq(ev.data.KVs, LAMBDA kv : kv.Key \notin {KeyCaller, KeyStacktrace})

\* The key whose rendering is the i-th entry of the current main record's list.
KeyAt(i) == (CHOOSE kv \in Range(GenericKVs) : RenderKV(kv) = CurrentMain.kvs[i]).Key

\* All that PrettyPrint writes for the current event.
FullRendering ==
    IF ~ev.Structured THEN <<RawRecord(nread, ev.Raw)>>
    ELSE <<MainRecord(nread, ev.data)>>
         \o (IF LoopString(ev.data.KVs, KeyStacktrace) # <<>>
             THEN TracebackBlock(nread, LoopString(ev.data.KVs, KeyStacktrace))
             ELSE <<>>)

(***************************************************************************)
(* C1. A stream-level read failure (a line over the buffer size, an I/O    *)
(* error) makes Scan return a non-nil error; Scan returns nil only at the  *)
(* normal end of the stream or on cancellation.                            *)
(***************************************************************************)
C1_StreamFailureSurfaces == (pc = "done" /\ scanErr # "none") => ret = "err"

(***************************************************************************)
(* C2. A structured line whose caller or stacktrace field holds a value    *)
(* that is no string is still rendered: PrettyPrint does not abort, the    *)
(* line's main record is written with the field treated as absent.         *)
(***************************************************************************)
NonStringReserved(kvs) ==
    \E i \in 1..Len(kvs) :
        kvs[i].Key \in {KeyCaller, KeyStacktrace} /\ kvs[i].Value.kind # "string"

C2_NonStringTolerated ==
    (nread > 0 /\ ev.Structured /\ NonStringReserved(ev.data.KVs) /\ pc # "print")
        => /\ pc # "panic"
           /\ Kinds(LineRecords(nread)) = <<"main">>

(***************************************************************************)
(* C3. In the main record of a JSON object line every key other than       *)
(* caller and stacktrace (ts, msg, level already extracted) appears        *)
(* exactly once in the key=value list, and the list is in the              *)
(* lexicographic order of the keys, with colors on or off.                 *)
(***************************************************************************)
C3_SortedByKey ==
    Printed =>
        /\ Len(CurrentMain.kvs) = Len(GenericKVs)
        /\ \A j \in 1..Len(GenericKVs) :
              Cardinality({i \in 1..Len(CurrentMain.kvs) :
                              CurrentMain.kvs[i] = RenderKV(GenericKVs[j])}) = 1
        /\ \A i, j \in 1..Len(CurrentMain.kvs) : i < j => StrLess(KeyAt(i), KeyAt(j))

(***************************************************************************)
(* C4. A line is classified as structured exactly when it decodes as a     *)
(* JSON object; every other line (no JSON, empty, null, array, number ...) *)
(* is raw and is rendered as its text alone.                               *)
(***************************************************************************)
C4_OnlyObjectsStructured ==
    (nread > 0 /\ pc \in {"print", "trace", "poll"})
        => /\ ev.Structured <=> ParseKind = "object"
           /\ (pc = "poll" /\ ParseKind # "object")
                 => LineRecords(nread) = <<RawRecord(nread, ev.Raw)>>

(***************************************************************************)
(* C5. Cancellation is polled only once the line read has been rendered    *)
(* in full: a line that has been read is always rendered in full (main     *)
(* record and traceback block), whether or not the context was cancelled   *)
(* before or during it, and a Scan that a cancelled poll has ended has     *)
(* returned nil with every line it read rendered.                          *)
(***************************************************************************)
C5_InFlightLineCompletes ==
    /\ (nread > 0 /\ pc \notin {"print", "trace"})
          => (pc # "panic" /\ LineRecords(nread) = FullRendering)
    /\ (pc = "done" /\ cancelled /\ scanErr = "none") => ret = "nil"

(***************************************************************************)
(* The order of rendering and polling by itself, panics of PrettyPrint set *)
(* aside: at the poll the sink holds the whole rendering of the line; a    *)
(* step taken while a line is being rendered never returns from Scan,      *)
(* cancelled or not; a poll that sees the cancellation ends Scan with nil; *)
(* nothing is read or written after Scan has returned.                     *)
(***************************************************************************)
\* A step taken while a line is being rendered stays in that line.
MidLineStep ==
    pc \in {"print", "trace"}
        => (pc' \in {"print", "trace", "poll", "panic"} /\ ret' = "none"
            /\ ((pc' # pc /\ pc' # "panic") => out' # out))

\* A step taken at the poll with the context cancelled ends Scan.
CancelledPollStep ==
    (pc = "poll" /\ cancelled)
        => (pc' = "done" /\ ret' = "nil" /\ out' = out /\ nread' = nread)

AfterReturnStep == pc = "done" => (out' = out /\ nread' = nread)

PollAfterRender ==
    /\ [](pc = "poll" => LineRecords(nread) = FullRendering)
    /\ [][MidLineStep]_vars
    /\ [][CancelledPollStep]_vars
    /\ [][AfterReturnStep]_vars

(***************************************************************************)
(* C6. The sink receives one main record per line read, in input order,    *)
(* each followed at once by its traceback block; a line's records are all  *)
(* written before the next line is read and no line read is skipped.       *)
(***************************************************************************)
C6_OneRecordPerLine ==
    /\ \A i \in 1..(Len(out) - 1) : out[i].lineNo <= out[i + 1].lineNo
    /\ LineNos(MainRecords) = [i \in 1..Len(MainRecords) |-> i]
    /\ \A n \in 1..Len(MainRecords) : LineRecords(n)[1].kind \in {"raw", "main"}
    /\ pc \in {"scan", "poll", "done", "panic"} => Len(MainRecords) = nread

(***************************************************************************)
(* C7. A numeric timestamp v denotes v nanoseconds after the epoch when    *)
(* v > 1e18, v microseconds when 1e15 < v <= 1e18, v milliseconds when     *)
(* 1e12 < v <= 1e15 and v seconds otherwise, for every v of each range.    *)
(***************************************************************************)
\* The instant m * 1000^k nanoseconds after the epoch.
NanosAfterEpoch(m, k) ==
    [sec |-> SInt(FALSE, DivPow(MulPow(m, k), 3)), nsec |-> ModPow(MulPow(m, k), 3)]

DenotedInstant(v) ==
    IF Greater(v, E18) THEN NanosAfterEpoch(v.mag, 0)
    ELSE IF Greater(v, E15) THEN NanosAfterEpoch(v.mag, 1)
    ELSE IF Greater(v, E12) THEN NanosAfterEpoch(v.mag, 2)
    ELSE [sec |-> v, nsec |-> <<>>]

C7_ScaleInference == tpc = "parsed" => tres = DenotedInstant(tv)

(***************************************************************************)
(* C8, as stated. A structured line with a string under stacktrace, the    *)
(* empty string included, is rendered as its main record, a box top, one   *)
(* bar line per newline-delimited segment and a box bottom; the stacktrace *)
(* key is not in the key=value list.                                       *)
(***************************************************************************)
StacktraceString ==
    /\ HasKey(ev.data.KVs, KeyStacktrace)
    /\ ValueOf(ev.data.KVs, KeyStacktrace).kind = "string"

\* The segments of a text between its newlines.
RECURSIVE Segments(_)
Segments(s) ==
    IF \E i \in 1..Len(s) : s[i] = 10
    THEN LET i == CHOOSE i \in 1..Len(s) : s[i] = 10 /\ \A j \in 1..(i - 1) : s[j] # 10
         IN <<SubSeq(s, 1, i - 1)>> \o Segments(SubSeq(s, i + 1, Len(s)))
    ELSE <<s>>

BlockFor(text) ==
    LET recs == LineRecords(nread)
        segs == Segments(text)
    IN /\ Kinds(recs) = <<"main", "top">> \o [i \in 1..Len(segs) |-> "bar"] \o <<"bottom">>
       /\ \A i \in 1..Len(segs) : recs[2 + i].text = Sprint(ErrorLevelColor, BoxBar) \o segs[i]

NoStacktraceEntry ==
    \A i \in 1..Len(CurrentMain.kvs) :
        ~IsPrefix(Sprint(KeyColor, KeyStacktrace) \o <<61>>, CurrentMain.kvs[i])

OutKeys == {jout.KVs[i].Key : i \in 1..Len(jout.KVs)}

Resolves(v) ==
    \/ v.kind = "number"
    \/ v.kind = "string" /\ \E i \in 1..NumFormats : TimeParse(i, v.str).ok

IsString(raw, k) == k \in DOMAIN raw /\ raw[k].kind = "string"

C9_ReservedKeysRouted ==
    jpc = "handled" =>
        /\ Len(jout.KVs) = Cardinality(OutKeys)
        /\ OutKeys \subseteq DOMAIN jraw
        /\ \A i \in 1..Len(jout.KVs) : jout.KVs[i].Value = jraw[jout.KVs[i].Key]
        /\ \A k \in (DOMAIN jraw) \ {KeyTs, KeyMsg, KeyLevel} : k \in OutKeys
        /\ KeyTs \in OutKeys <=> (KeyTs \in DOMAIN jraw /\ ~Resolves(jraw[KeyTs]))
        /\ (KeyTs \in DOMAIN jraw /\ Resolves(jraw[KeyTs])) => jout.Time # ZeroTime
        /\ (KeyTs \in OutKeys \/ KeyTs \notin DOMAIN jraw) => jout.Time = ZeroTime
        /\ KeyMsg \in OutKeys <=> (KeyMsg \in DOMAIN jraw /\ ~IsString(jraw, KeyMsg))
        /\ jout.Msg = IF IsString(jraw, KeyMsg) THEN jraw[KeyMsg].str ELSE <<>>
        /\ KeyLevel \in OutKeys <=> (KeyLevel \in DOMAIN jraw /\ ~IsString(jraw, KeyLevel))
        /\ jout.Level = IF IsString(jraw, KeyLevel) THEN jraw[KeyLevel].str ELSE <<>>

\* ts resolved and left the field set, a msg that is no string stayed, and so
\* did another key.
C9_Witness ==
    /\ jpc = "handled"
    /\ KeyTs \in DOMAIN jraw
    /\ KeyTs \notin OutKeys
    /\ jout.Time # ZeroTime
    /\ KeyMsg \in OutKeys
    /\ KeyA \in OutKeys
    /\ jout.Msg = <<>>

(***************************************************************************)
(* C10. For every level string the category is chosen without regard to    *)
(* case (debug, info, warn/warning, error, fatal/panic, else Unknown), the *)
(* label is the level uppercased and cut to its first min(4, length)       *)
(* bytes, and producing it never fails.                                    *)
(***************************************************************************)
ExpectedCategory(level) ==
    LET l == ToLower(level)
    IN IF l = LvlDebug THEN "Debug"
       ELSE IF l = LvlInfo THEN "Info"
       ELSE IF l = LvlWarn \/ l = LvlWarning THEN "Warn"
       ELSE IF l = LvlError THEN "Error"
       ELSE IF l = LvlFatal \/ l = LvlPanic THEN "Fatal"
       ELSE "Unknown"

ExpectedLabel(level) ==
    LET u == ToUpper(level)
    IN SubSeq(u, 1, Min(Min(4, Len(level)), Len(u)))

C10_LevelLabel ==
    (nread > 0 /\ ev.Structured /\ ~NonStringReserved(ev.data.KVs) /\ pc # "print")
        => /\ pc # "panic"
           /\ Len(ExpectedLabel(ev.data.Level)) <= 4
           /\ IsPrefix(<<32, 91>>
                         \o Sprint(CategoryColor(ExpectedCategory(ev.data.Level)),
                                   ExpectedLabel(ev.data.Level))
                         \o <<93, 32>>,
                       CurrentMain.text)

====
